---- MODULE Spec2Model ----
(***************************************************************************)
(* Model of examples/conserver-supabase-storage.py: the SupabaseStorage    *)
(* backend.  A vCon document is decomposed into a header row and four      *)
(* position-indexed sub-tables in the relational store, and is cached in a *)
(* key-value cache (write-through on save, read-through on get).           *)
(*                                                                         *)
(* Python values are tagged tuples, so that None, "", 0, [] and {} stay    *)
(* distinct and the truthiness tests of the code can be modelled as they   *)
(* are written.  Strings are sequences of one-character strings.  A dict   *)
(* is a function whose domain is the set of keys that are present.         *)
(***************************************************************************)
EXTENDS Integers, Sequences, FiniteSets, TLC

VARIABLES db, cache, cache_enabled, redis_client, startup, last, deleted,
          running

vars ==
    <<db, cache, cache_enabled, redis_client, startup, last, deleted, running>>

-----------------------------------------------------------------------------
(* Python values *)

None == <<"none">>
Str(s) == <<"str", s>>
Num(n) == <<"int", n>>
List(s) == <<"list", s>>
Dict(f) == <<"dict", f>>
EmptyDict == Dict(<<>>)
Ts(n) == <<"ts", n>>
Bool(b) == <<"bool", b>>

\* bool(v): the truth value Python gives a value in `if v:`
Truthy(v) ==
    CASE v[1] = "none" -> FALSE
      [] v[1] = "str"  -> Len(v[2]) > 0
      [] v[1] = "int"  -> v[2] # 0
      [] v[1] = "list" -> Len(v[2]) > 0
      [] v[1] = "dict" -> DOMAIN v[2] # {}
      [] v[1] = "bool" -> v[2]
      [] OTHER         -> TRUE

IsNotNone(v) == v # None

\* d.get(k): the value under k, None when k is absent
DictGet(d, k) == IF k \in DOMAIN d THEN d[k] ELSE None

\* d.get(k, default)
DictGetDefault(d, k, default) == IF k \in DOMAIN d THEN d[k] ELSE default

\* json.dumps / json.loads on the JSON-native values above: the text carries
\* the value, and a parsed text gives the value back
JsonDumps(v) == <<"json", v>>
JsonLoads(s) == s[2]

\* f"vcon:{uuid}"
CacheKey(uuid) == <<"v", "c", "o", "n", ":">> \o uuid[2]

-----------------------------------------------------------------------------
(* Row codec: one sub-entity to one row and back *)

PartyFields ==
    {"tel", "sip", "stir", "mailto", "name", "did", "uuid", "validation",
     "jcard", "gmlpos", "civicaddress", "timezone"}

\* the dict built in the loop of _save_parties
party_data(vcon_id, idx, party) ==
    [c \in PartyFields \cup {"vcon_id", "party_index"} |->
        CASE c = "vcon_id"     -> vcon_id
          [] c = "party_index" -> idx
          [] OTHER             -> DictGet(party, c)]

\* <<output key, column, test>>: the key is emitted when the test passes
DialogRules ==
    {<<"type", "type", "always">>,
     <<"start", "start_time", "truthy">>,
     <<"duration", "duration_seconds", "notnone">>,
     <<"parties", "parties", "truthy">>,
     <<"originator", "originator", "notnone">>,
     <<"mediatype", "mediatype", "truthy">>,
     <<"filename", "filename", "truthy">>,
     <<"body", "body", "truthy">>,
     <<"encoding", "encoding", "truthy">>,
     <<"url", "url", "truthy">>,
     <<"content_hash", "content_hash", "truthy">>,
     <<"disposition", "disposition", "truthy">>,
     <<"session_id", "session_id", "truthy">>,
     <<"application", "application", "truthy">>,
     <<"message_id", "message_id", "truthy">>}

\* the dict built in the loop of _save_dialog
dialog_data(vcon_id, idx, dialog) ==
    [c \in {r[2] : r \in DialogRules} \cup {"vcon_id", "dialog_index"} |->
        CASE c = "vcon_id"      -> vcon_id
          [] c = "dialog_index" -> idx
          [] OTHER -> DictGet(dialog, (CHOOSE r \in DialogRules : r[2] = c)[1])]

AnalysisRules ==
    {<<"type", "type", "always">>,
     <<"vendor", "vendor", "always">>,
     <<"mediatype", "mediatype", "truthy">>,
     <<"filename", "filename", "truthy">>,
     <<"product", "product", "truthy">>,
     <<"schema", "schema", "truthy">>,
     <<"body", "body", "truthy">>,
     <<"encoding", "encoding", "truthy">>,
     <<"url", "url", "truthy">>,
     <<"content_hash", "content_hash", "truthy">>}

\* dialog_indices without the normalisation: the reference is stored as given
dialog_indices_Raw(analysis) == DictGet(analysis, "dialog")

\* "Normalize dialog field to array" in _save_analysis
dialog_indices(analysis) ==
    LET d == DictGet(analysis, "dialog")
    IN  IF d # None /\ d[1] # "list" THEN List(<<d>>) ELSE d

\* the dict built in the loop of _save_analysis
analysis_data(vcon_id, idx, analysis) ==
    [c \in {r[2] : r \in AnalysisRules}
            \cup {"vcon_id", "analysis_index", "dialog_indices"} |->
        CASE c = "vcon_id"        -> vcon_id
          [] c = "analysis_index" -> idx
          [] c = "dialog_indices" -> dialog_indices(analysis)
          [] OTHER                -> DictGet(analysis, c)]

AttachmentRules ==
    {<<"type", "type", "truthy">>,
     <<"start", "start_time", "truthy">>,
     <<"party", "party", "notnone">>,
     <<"dialog", "dialog", "notnone">>,
     <<"mediatype", "mimetype", "truthy">>,
     <<"filename", "filename", "truthy">>,
     <<"body", "body", "truthy">>,
     <<"encoding", "encoding", "truthy">>,
     <<"url", "url", "truthy">>,
     <<"content_hash", "content_hash", "truthy">>}

\* the dict built in the loop of _save_attachments
attachment_data(vcon_id, idx, attachment) ==
    [c \in {r[2] : r \in AttachmentRules} \cup {"vcon_id", "attachment_index"} |->
        CASE c = "vcon_id"          -> vcon_id
          [] c = "attachment_index" -> idx
          [] OTHER -> DictGet(attachment, (CHOOSE r \in AttachmentRules : r[2] = c)[1])]

\* Passes with no test: `out[key] = row.get(col)` for every column
PassesAlways(test, v) == TRUE

\* one `if row.get(col)...: out[key] = row[col]` line of a decoder
Passes(test, v) ==
    CASE test = "always"  -> TRUE
      [] test = "truthy"  -> Truthy(v)
      [] test = "notnone" -> IsNotNone(v)

\* the dict a decoder builds from a row under its rules
Emit(row, rules) ==
    LET kept == {r \in rules : Passes(r[3], row[r[2]])}
    IN  [k \in {r[1] : r \in kept} |-> row[(CHOOSE r \in kept : r[1] = k)[2]]]

_party_from_db(row) ==
    Emit(row, {<<f, f, "truthy">> : f \in PartyFields})

\* _dialog_from_db with `if row.get(col):` for duration and originator too
_dialog_from_db_Truthy(row) ==
    Emit(row, {<<r[1], r[2], IF r[3] = "notnone" THEN "truthy" ELSE r[3]>> :
                  r \in DialogRules})

_dialog_from_db(row) == Emit(row, DialogRules)

_analysis_from_db(row) ==
    LET base == Emit(row, AnalysisRules)
        indices == row.dialog_indices
    IN  IF Truthy(indices)
        THEN [k \in DOMAIN base \cup {"dialog"} |->
                IF k = "dialog"
                THEN (IF Len(indices[2]) = 1 THEN indices[2][1] ELSE indices)
                ELSE base[k]]
        ELSE base

_attachment_from_db(row) == Emit(row, AttachmentRules)

-----------------------------------------------------------------------------
(* The relational store: five tables, each a set of rows.  The header table *)
(* is keyed by uuid and carries the store-generated id; a sub-table is      *)
(* keyed by (vcon_id, <kind>_index).                                        *)

SubTables == <<"parties", "dialog", "analysis", "attachments">>

IndexCol(table) ==
    CASE table = "parties"     -> "party_index"
      [] table = "dialog"      -> "dialog_index"
      [] table = "analysis"    -> "analysis_index"
      [] table = "attachments" -> "attachment_index"

EmptyDb ==
    [vcons |-> {}, parties |-> {}, dialog |-> {}, analysis |-> {},
     attachments |-> {}]

\* the id the store generates for a new header row: one no header row holds
\* and, by the cascade of DeleteHeader, no sub-row refers to
FreshId(d) ==
    CHOOSE n \in 1..(Cardinality(d.vcons) + 1) :
        /\ \A r \in d.vcons : r.id # n
        /\ \A m \in 1..(n - 1) : \E r \in d.vcons : r.id = m

\* the header row select('*').eq('uuid', uuid) finds, as a set of 0 or 1 rows
HeaderRows(d, uuid) == {r \in d.vcons : r.uuid = uuid}

\* result.data[0]['id'] of the header upsert: the id the row has or is given
HeaderId(d, uuid) ==
    IF HeaderRows(d, uuid) # {}
    THEN (CHOOSE r \in HeaderRows(d, uuid) : TRUE).id
    ELSE FreshId(d)

\* table(t).upsert(row).execute(): insert, or replace the row with the same key
Upsert(d, table, row) ==
    IF table = "vcons"
    THEN LET id == HeaderId(d, row.uuid)
             stored == [c \in DOMAIN row \cup {"id"} |->
                          IF c = "id" THEN id ELSE row[c]]
         IN  [d EXCEPT !.vcons = (@ \ HeaderRows(d, row.uuid)) \cup {stored}]
    ELSE LET ix == IndexCol(table)
             same == {r \in d[table] :
                        r.vcon_id = row.vcon_id /\ r[ix] = row[ix]}
         IN  [d EXCEPT ![table] = (@ \ same) \cup {row}]

\* table('vcons').delete().eq('uuid', uuid).execute(), with the schema's
\* cascade to the four sub-tables
DeleteHeader(d, uuid) ==
    LET ids == {r.id : r \in HeaderRows(d, uuid)}
    IN  [t \in DOMAIN d |->
            IF t = "vcons" THEN d.vcons \ HeaderRows(d, uuid)
            ELSE {r \in d[t] : r.vcon_id \notin ids}]

\* .order(col): the rows as a sequence, ascending by col
RECURSIVE OrderBy(_, _)
OrderBy(rows, col) ==
    IF rows = {} THEN <<>>
    ELSE LET first == CHOOSE r \in rows : \A q \in rows : r[col] <= q[col]
         IN  <<first>> \o OrderBy(rows \ {first}, col)

\* SelectOrdered without the order clause, the store handing the rows out
\* from the last written on: [c, a, b] for the rows of [a, b, c]
SelectRotated(d, table, vcon_id) ==
    LET rows == OrderBy({r \in d[table] : r.vcon_id = vcon_id},
                        IndexCol(table))
        n == Len(rows)
    IN  [i \in 1..n |-> rows[((i + n - 2) % n) + 1]]

\* select('*').eq('vcon_id', vcon_id).order(<kind>_index).execute().data
SelectOrdered(d, table, vcon_id) ==
    OrderBy({r \in d[table] : r.vcon_id = vcon_id}, IndexCol(table))

\* [self._party_from_db(x) for x in result.data]
_party_from_db_rows(data) == [i \in DOMAIN data |-> _party_from_db(data[i])]

_get_parties(d, vcon_id) ==
    _party_from_db_rows(SelectOrdered(d, "parties", vcon_id))

\* [self._dialog_from_db(x) for x in result.data]
_dialog_from_db_rows(data) == [i \in DOMAIN data |-> _dialog_from_db(data[i])]

_get_dialog(d, vcon_id) ==
    _dialog_from_db_rows(SelectOrdered(d, "dialog", vcon_id))

\* [self._analysis_from_db(x) for x in result.data]
_analysis_from_db_rows(data) == [i \in DOMAIN data |-> _analysis_from_db(data[i])]

_get_analysis(d, vcon_id) ==
    _analysis_from_db_rows(SelectOrdered(d, "analysis", vcon_id))

\* [self._attachment_from_db(x) for x in result.data]
_attachment_from_db_rows(data) == [i \in DOMAIN data |-> _attachment_from_db(data[i])]

_get_attachments(d, vcon_id) ==
    _attachment_from_db_rows(SelectOrdered(d, "attachments", vcon_id))

\* the upsert calls of one _save_<kind> pass, in the order they are issued
\* (enumerate gives idx 0, 1, 2, ...)
_save_parties(vcon_id, parties) ==
    [i \in 1..Len(parties) |->
        [table |-> "parties", row |-> party_data(vcon_id, i - 1, parties[i])]]

_save_dialog(vcon_id, dialogs) ==
    [i \in 1..Len(dialogs) |->
        [table |-> "dialog", row |-> dialog_data(vcon_id, i - 1, dialogs[i])]]

_save_analysis(vcon_id, analyses) ==
    [i \in 1..Len(analyses) |->
        [table |-> "analysis",
         row |-> analysis_data(vcon_id, i - 1, analyses[i])]]

_save_attachments(vcon_id, attachments) ==
    [i \in 1..Len(attachments) |->
        [table |-> "attachments",
         row |-> attachment_data(vcon_id, i - 1, attachments[i])]]

\* `'parties' in vcon and vcon['parties']`: the list to save, empty when the
\* key is absent or the list is empty
SubList(vcon, k) == IF k \in DOMAIN vcon THEN vcon[k] ELSE <<>>

DefaultVersion == Str(<<"0", ".", "3", ".", "0">>)

\* the header dict built at the start of save; now is
\* datetime.utcnow().isoformat()
vcon_data(vcon, now) ==
    [uuid         |-> vcon.uuid,
     vcon_version |-> DictGetDefault(vcon, "vcon", DefaultVersion),
     subject      |-> DictGet(vcon, "subject"),
     created_at   |-> DictGetDefault(vcon, "created_at", now),
     updated_at   |-> DictGetDefault(vcon, "updated_at", now),
     extensions   |-> DictGet(vcon, "extensions"),
     must_support |-> DictGet(vcon, "must_support"),
     redacted     |-> DictGetDefault(vcon, "redacted", EmptyDict),
     appended     |-> DictGetDefault(vcon, "appended", EmptyDict)]

\* every store call of a save, in the order it is issued; vcon_id is
\* result.data[0]['id'] of the header upsert
SaveCalls(vcon_id, vcon, now) ==
    <<[table |-> "vcons", row |-> vcon_data(vcon, now)]>>
    \o _save_parties(vcon_id, SubList(vcon, "parties"))
    \o _save_dialog(vcon_id, SubList(vcon, "dialog"))
    \o _save_analysis(vcon_id, SubList(vcon, "analysis"))
    \o _save_attachments(vcon_id, SubList(vcon, "attachments"))

\* the store after the first n calls of a sequence of upserts
RECURSIVE ApplyCalls(_, _, _)
ApplyCalls(d, calls, n) ==
    IF n = 0 THEN d
    ELSE Upsert(ApplyCalls(d, calls, n - 1), calls[n].table, calls[n].row)

-----------------------------------------------------------------------------
(* The public operations.  Each is an operator from the store d, the cache  *)
(* c, the two cache switches and the call's inputs to a record              *)
(*   [db, cache, ret, log, exc]:                                            *)
(* the store and cache afterwards, the value returned, the store and cache  *)
(* calls issued in order (a call that raised ends with "!"), and the        *)
(* exception that leaves the operation ("none" when it returns).  A dict    *)
(* that is returned is wrapped as Dict(..), so that it can be told from     *)
(* None.                                                                    *)
(* sf is the store's behaviour during the call: 0 for no fault, k >= 1 when *)
(* the k-th store call of the operation raises, -1 when the header upsert   *)
(* answers with no row.  cf is the set of cache methods that raise.         *)

Result(d, c, ret, log, exc) ==
    [db |-> d, cache |-> c, ret |-> ret, log |-> log, exc |-> exc]

\* Except with no except clause: what the try block raised goes on
ExceptNothing(r, value) == r

\* `except Exception as e: ...; return <value>` around a try block
Except(r, value) ==
    IF r.exc # "none" THEN [r EXCEPT !.ret = value, !.exc = "none"] ELSE r

\* CacheOn with the guard left out: the cache client is used whatever
\* __init__ found
CacheOnAlways(enabled, client) == TRUE

\* `if self.cache_enabled and self.redis_client:`
CacheOn(enabled, client) == enabled /\ client # None

cache_ttl == 3600

\* the guarded redis_client.setex(f"vcon:{uuid}", self.cache_ttl,
\* json.dumps(vcon)) with its own except: [cache, log]
CacheSetex(c, enabled, client, uuid, vcon, cf) ==
    IF ~CacheOn(enabled, client) THEN [cache |-> c, log |-> <<>>]
    ELSE IF "setex" \in cf THEN [cache |-> c, log |-> <<"redis.setex!">>]
    ELSE [cache |-> [k \in DOMAIN c \cup {CacheKey(uuid)} |->
                        IF k = CacheKey(uuid)
                        THEN [ttl |-> cache_ttl, value |-> JsonDumps(vcon)]
                        ELSE c[k]],
          log |-> <<"redis.setex">>]

\* the guarded redis_client.delete(f"vcon:{uuid}") with its own except
CacheDelete(c, enabled, client, uuid, cf) ==
    IF ~CacheOn(enabled, client) THEN [cache |-> c, log |-> <<>>]
    ELSE IF "delete" \in cf THEN [cache |-> c, log |-> <<"redis.delete!">>]
    ELSE [cache |-> [k \in DOMAIN c \ {CacheKey(uuid)} |-> c[k]],
          log |-> <<"redis.delete">>]

\* the guarded redis_client.get(f"vcon:{uuid}") with its own except:
\* [hit, value, log]
CacheLookup(c, enabled, client, uuid, cf) ==
    IF ~CacheOn(enabled, client)
    THEN [hit |-> FALSE, value |-> None, log |-> <<>>]
    ELSE IF "get" \in cf
    THEN [hit |-> FALSE, value |-> None, log |-> <<"redis.get!">>]
    ELSE IF CacheKey(uuid) \in DOMAIN c
    THEN [hit |-> TRUE, value |-> c[CacheKey(uuid)].value,
          log |-> <<"redis.get">>]
    ELSE [hit |-> FALSE, value |-> None, log |-> <<"redis.get">>]

UpsertTags(calls) == [i \in 1..Len(calls) |-> calls[i].table \o ".upsert"]

\* the calls issued when call number k of tags raised
RaisedAt(tags, k) == SubSeq(tags, 1, k - 1) \o <<tags[k] \o "!">>

\* the number of upserts of a save that take effect under sf
Applied(calls, sf) == IF sf \in 1..Len(calls) THEN sf - 1 ELSE Len(calls)

\* SaveOutcome with a cache fault that is not caught: it reaches save's
\* outer except
SaveOutcomeCacheFatal(d2, c, w, tags, sf) ==
    IF sf \in 1..Len(tags)
    THEN Result(d2, c, None, RaisedAt(tags, sf), "StoreError")
    ELSE IF w.log = <<"redis.setex!">>
    THEN Result(d2, c, None, tags \o w.log, "CacheError")
    ELSE Result(d2, w.cache, Bool(TRUE), tags \o w.log, "none")

\* SaveOutcome with the cache write in a finally clause: it is made also
\* when an upsert raised
SaveOutcomeCacheAlways(d2, c, w, tags, sf) ==
    IF sf \in 1..Len(tags)
    THEN Result(d2, w.cache, None, RaisedAt(tags, sf) \o w.log, "StoreError")
    ELSE Result(d2, w.cache, Bool(TRUE), tags \o w.log, "none")

\* how save ends once its upserts were issued: d2 is the store after them,
\* w the cache write that follows when none of them raised
SaveOutcome(d2, c, w, tags, sf) ==
    IF sf \in 1..Len(tags)
    THEN Result(d2, c, None, RaisedAt(tags, sf), "StoreError")
    ELSE Result(d2, w.cache, Bool(TRUE), tags \o w.log, "none")

\* SaveRun without the `if not result.data` check: an empty header result
\* is taken for a written header
SaveRunNoCheck(d, c, enabled, client, vcon, calls, sf, cf) ==
    SaveOutcome(ApplyCalls(d, calls, Applied(calls, sf)), c,
                CacheSetex(c, enabled, client, vcon.uuid, vcon, cf),
                UpsertTags(calls), sf)

\* save from the header upsert on
SaveRun(d, c, enabled, client, vcon, calls, sf, cf) ==
    IF sf = -1
    THEN Result(d, c, None, <<"vcons.upsert0">>, "Exception")
    ELSE SaveOutcome(ApplyCalls(d, calls, Applied(calls, sf)), c,
                     CacheSetex(c, enabled, client, vcon.uuid, vcon, cf),
                     UpsertTags(calls), sf)

\* save_try with the identifier checked only after the header upsert
save_try_LateCheck(d, c, enabled, client, vcon, now, sf, cf) ==
    IF ~Truthy(DictGet(vcon, "uuid"))
    THEN Result(d, c, None, <<"vcons.upsert">>, "ValueError")
    ELSE SaveRun(d, c, enabled, client, vcon,
                 SaveCalls(HeaderId(d, vcon.uuid), vcon, now), sf, cf)

\* the body of save's try block
save_try(d, c, enabled, client, vcon, now, sf, cf) ==
    IF ~Truthy(DictGet(vcon, "uuid"))
    THEN Result(d, c, None, <<>>, "ValueError")
    ELSE SaveRun(d, c, enabled, client, vcon,
                 SaveCalls(HeaderId(d, vcon.uuid), vcon, now), sf, cf)

\* save: `except Exception` turns whatever the body raised into False
save(d, c, enabled, client, vcon, now, sf, cf) ==
    Except(save_try(d, c, enabled, client, vcon, now, sf, cf), Bool(FALSE))

\* the dict get rebuilds from the header row and the four sub-tables
Reconstruct(d, vcon_data_row) ==
    [vcon         |-> vcon_data_row.vcon_version,
     uuid         |-> vcon_data_row.uuid,
     created_at   |-> vcon_data_row.created_at,
     updated_at   |-> vcon_data_row.updated_at,
     subject      |-> vcon_data_row.subject,
     extensions   |-> DictGet(vcon_data_row, "extensions"),
     must_support |-> DictGet(vcon_data_row, "must_support"),
     redacted     |-> DictGetDefault(vcon_data_row, "redacted", EmptyDict),
     appended     |-> DictGetDefault(vcon_data_row, "appended", EmptyDict),
     parties      |-> _get_parties(d, vcon_data_row.id),
     dialog       |-> _get_dialog(d, vcon_data_row.id),
     analysis     |-> _get_analysis(d, vcon_data_row.id),
     attachments  |-> _get_attachments(d, vcon_data_row.id)]

GetTags ==
    <<"vcons.select", "parties.select", "dialog.select", "analysis.select",
      "attachments.select">>

\* the end of get's store path: the rebuilt vcon is returned after the
\* cache write w
GetFound(d, vcon, before, w) ==
    Result(d, w.cache, Dict(vcon), before \o GetTags \o w.log, "none")

\* GetPopulate without the cache write
GetPopulateNoWrite(d, c, enabled, client, uuid, cf, before, vcon) ==
    GetFound(d, vcon, before, [cache |-> c, log |-> <<>>])

\* "Cache for future reads", then `return vcon`
GetPopulate(d, c, enabled, client, uuid, cf, before, vcon) ==
    GetFound(d, vcon, before, CacheSetex(c, enabled, client, uuid, vcon, cf))

\* get_store_try with the sub-tables queried before the header result is
\* looked at
get_store_try_LateCheck(d, c, enabled, client, uuid, sf, cf, before) ==
    IF sf \in 1..Len(GetTags)
    THEN Result(d, c, None, before \o RaisedAt(GetTags, sf), "StoreError")
    ELSE IF HeaderRows(d, uuid) = {}
    THEN Result(d, c, None, before \o GetTags, "none")
    ELSE GetPopulate(d, c, enabled, client, uuid, cf, before,
                     Reconstruct(d, CHOOSE r \in HeaderRows(d, uuid) : TRUE))

\* the second try block of get: the read through the store, given the log
\* of the cache lookup before it
get_store_try(d, c, enabled, client, uuid, sf, cf, before) ==
    IF sf \in 1..Len(GetTags)
    THEN Result(d, c, None, before \o RaisedAt(GetTags, sf), "StoreError")
    ELSE IF HeaderRows(d, uuid) = {}
    THEN Result(d, c, None, before \o <<"vcons.select">>, "none")
    ELSE GetPopulate(d, c, enabled, client, uuid, cf, before,
                     Reconstruct(d, CHOOSE r \in HeaderRows(d, uuid) : TRUE))

\* `except Exception` of the second try block: a store fault gives None
get_store(d, c, enabled, client, uuid, sf, cf, before) ==
    Except(get_store_try(d, c, enabled, client, uuid, sf, cf, before), None)

\* GetAfter with the cached entry ignored: every get reads the store
GetAfterNoHit(d, c, enabled, client, uuid, sf, cf, look) ==
    get_store(d, c, enabled, client, uuid, sf, cf, look.log)

\* get after the cache lookup look: a hit returns the parsed entry, a miss
\* or a cache fault goes on to the store
GetAfter(d, c, enabled, client, uuid, sf, cf, look) ==
    IF look.hit
    THEN Result(d, c, Dict(JsonLoads(look.value)), look.log, "none")
    ELSE get_store(d, c, enabled, client, uuid, sf, cf, look.log)

get(d, c, enabled, client, uuid, sf, cf) ==
    GetAfter(d, c, enabled, client, uuid, sf, cf,
             CacheLookup(c, enabled, client, uuid, cf))

\* how delete ends after the store delete succeeded and the cache
\* invalidation w was attempted
DeleteOutcome(d2, w) ==
    Result(d2, w.cache, Bool(TRUE), <<"vcons.delete">> \o w.log, "none")

\* delete_try with the cache invalidated before the store delete
delete_try_InvalidateFirst(d, c, enabled, client, uuid, sf, cf) ==
    IF sf = 1
    THEN Result(d, CacheDelete(c, enabled, client, uuid, cf).cache, None,
                CacheDelete(c, enabled, client, uuid, cf).log
                    \o <<"vcons.delete!">>, "StoreError")
    ELSE Result(DeleteHeader(d, uuid),
                CacheDelete(c, enabled, client, uuid, cf).cache, Bool(TRUE),
                CacheDelete(c, enabled, client, uuid, cf).log
                    \o <<"vcons.delete">>, "none")

\* delete_try that takes a delete of no row for a failure
delete_try_MissingFails(d, c, enabled, client, uuid, sf, cf) ==
    IF sf = 1 \/ HeaderRows(d, uuid) = {}
    THEN Result(d, c, None, <<"vcons.delete!">>, "StoreError")
    ELSE DeleteOutcome(DeleteHeader(d, uuid),
                       CacheDelete(c, enabled, client, uuid, cf))

\* the body of delete's try block
delete_try(d, c, enabled, client, uuid, sf, cf) ==
    IF sf = 1
    THEN Result(d, c, None, <<"vcons.delete!">>, "StoreError")
    ELSE DeleteOutcome(DeleteHeader(d, uuid),
                       CacheDelete(c, enabled, client, uuid, cf))

\* delete: `except Exception` turns a store fault into False
delete(d, c, enabled, client, uuid, sf, cf) ==
    Except(delete_try(d, c, enabled, client, uuid, sf, cf), Bool(FALSE))

-----------------------------------------------------------------------------
(* search *)

UpperCase == <<"A", "B", "C">>
LowerCase == <<"a", "b", "c">>

\* the case folding of ILIKE, on the letters the model uses
Lower(ch) ==
    IF \E i \in 1..Len(UpperCase) : UpperCase[i] = ch
    THEN LowerCase[CHOOSE i \in 1..Len(UpperCase) : UpperCase[i] = ch]
    ELSE ch

\* text ILIKE pattern: % matches any run of characters, _ any one character,
\* any other character itself without regard to case
RECURSIVE ILike(_, _)
ILike(text, pattern) ==
    IF pattern = <<>> THEN text = <<>>
    ELSE IF Head(pattern) = "%"
    THEN ILike(text, Tail(pattern))
         \/ (text # <<>> /\ ILike(Tail(text), pattern))
    ELSE /\ text # <<>>
         /\ (Head(pattern) = "_" \/ Lower(Head(pattern)) = Lower(Head(text)))
         /\ ILike(Tail(text), Tail(pattern))

\* the header rows the filters of search keep; a NULL column matches no
\* filter
Filtered(d, query) ==
    {r \in d.vcons :
        /\ "subject" \in DOMAIN query =>
              /\ r.subject[1] = "str"
              /\ ILike(r.subject[2], <<"%">> \o query.subject[2] \o <<"%">>)
        /\ "start_date" \in DOMAIN query =>
              r.created_at[1] = "ts" /\ r.created_at[2] >= query.start_date[2]
        /\ "end_date" \in DOMAIN query =>
              r.created_at[1] = "ts" /\ r.created_at[2] <= query.end_date[2]}

\* `if vcon: vcons.append(vcon)` for the get result r, before the rest of
\* the loop
Append1(r, rest) ==
    [cache |-> rest.cache,
     vcons |-> (IF Truthy(r.ret) THEN <<r.ret[2]>> ELSE <<>>) \o rest.vcons,
     log   |-> r.log \o rest.log]

\* the `for row in result.data` loop of search from row i on: each uuid is
\* resolved by get, which reads and fills the cache.  gf = <<k, s>> gives the
\* k-th get the store behaviour s.  [cache, vcons, log]
RECURSIVE SearchLoop(_, _, _, _, _, _, _, _)
RECURSIVE SearchStep(_, _, _, _, _, _, _, _)
SearchStep(d, enabled, client, rows, i, gf, cf, r) ==
    Append1(r, SearchLoop(d, r.cache, enabled, client, rows, i + 1, gf, cf))

SearchLoop(d, c, enabled, client, rows, i, gf, cf) ==
    IF i > Len(rows) THEN [cache |-> c, vcons |-> <<>>, log |-> <<>>]
    ELSE SearchStep(d, enabled, client, rows, i, gf, cf,
                    get(d, c, enabled, client, rows[i].uuid,
                        IF gf[1] = i THEN gf[2] ELSE 0, cf))

Reverse(s) == [i \in 1..Len(s) |-> s[Len(s) + 1 - i]]

\* result.data of the select: it has no order clause, and rev chooses
\* between two of the orders in which the store may answer
SearchRows(d, query, rev) ==
    IF rev THEN Reverse(OrderBy(Filtered(d, query), "id"))
    ELSE OrderBy(Filtered(d, query), "id")

SearchOutcome(d, loop) ==
    Result(d, loop.cache, List(loop.vcons), <<"vcons.search">> \o loop.log,
           "none")

\* the body of search's try block
search_try(d, c, enabled, client, query, sf, gf, cf, rev) ==
    IF sf = 1
    THEN Result(d, c, None, <<"vcons.search!">>, "StoreError")
    ELSE SearchOutcome(d, SearchLoop(d, c, enabled, client,
                                     SearchRows(d, query, rev), 1, gf, cf))

\* search: `except Exception` turns a fault of the query into []
search(d, c, enabled, client, query, sf, gf, cf, rev) ==
    Except(search_try(d, c, enabled, client, query, sf, gf, cf, rev),
           List(<<>>))

-----------------------------------------------------------------------------
(* Bounds and the inputs drawn in the model *)

MaxTime == 2
MaxLen == 3

\* the clock readings of utcnow()
Times == 1..MaxTime

U1 == Str(<<"u", "1">>)
U2 == Str(<<"u", "2">>)

\* the identifiers callers use
Uuids == {U1}

\* a document in the shape get rebuilds: every header key, every sub-list
DocFull(u) ==
    [vcon |-> DefaultVersion, uuid |-> u,
     subject |-> Str(<<"A", "b">>),
     created_at |-> Ts(1), updated_at |-> Ts(1),
     extensions |-> None, must_support |-> None,
     redacted |-> EmptyDict, appended |-> EmptyDict,
     parties |-> <<[tel |-> Str(<<"+", "1">>)],
                   [name |-> Str(<<"b">>), mailto |-> Str(<<"b", "@">>)]>>,
     dialog |-> <<[type |-> Str(<<"t">>), duration |-> Num(0)]>>,
     analysis |-> <<>>, attachments |-> <<>>]

\* a document with the identifier and a subject, and nothing else
DocMin(u) == [uuid |-> u, subject |-> Str(<<"c">>)]

\* documents without an identifier
Malformed == {[subject |-> Str(<<"c">>)], [uuid |-> Str(<<>>)]}

Vcons == UNION {{DocFull(u), DocMin(u)} : u \in Uuids} \cup Malformed

Queries ==
    {<<>>,
     [subject |-> Str(<<"C">>)],
     [subject |-> Str(<<"_", "b">>)],
     [start_date |-> Ts(2)],
     [subject |-> Str(<<"B">>), start_date |-> Ts(1), end_date |-> Ts(1)]}

-----------------------------------------------------------------------------
(* State.  db and cache are the store and the cache; cache_enabled and      *)
(* redis_client are the fields __init__ sets, and startup is the branch of  *)
(* __init__ that set them.  last records the latest call                    *)
(* as its caller and the two back ends saw it: the operation, its argument, *)
(* the value returned, the calls issued and the exception raised to the     *)
(* caller.  deleted is the set of identifiers whose delete returned True    *)
(* with no save of them returning True since.  running holds the calls      *)
(* that have started and not returned, each with its position in the code   *)
(* and its local variables; it is empty where calls run one at a time.      *)

NoCall ==
    [op |-> "init", arg |-> None, ret |-> None, log |-> <<>>, exc |-> "none"]

Call(op, arg, r) ==
    [op |-> op, arg |-> arg, ret |-> r.ret, log |-> r.log, exc |-> r.exc]

\* the identifier a recorded call was about (None for search)
UuidOf(l) ==
    CASE l.op = "save" -> DictGet(l.arg[2], "uuid")
      [] l.op \in {"get", "delete", "expire"} -> l.arg
      [] OTHER -> None

\* the branch __init__ takes: no cache URL or no client library
\* ("unconfigured"), from_url or ping raised ("failed"), or the ping went
\* through ("connected")
Startup(configured, ping_ok) ==
    IF ~configured THEN "unconfigured"
    ELSE IF ping_ok THEN "connected" ELSE "failed"

\* __init__: the cache is on when a cache URL is configured, the client
\* library is there and the ping succeeds; otherwise it is off and
\* redis_client is None
Init ==
    /\ db = EmptyDb
    /\ cache = <<>>
    /\ \E configured \in BOOLEAN, ping_ok \in BOOLEAN :
          /\ startup = Startup(configured, ping_ok)
          /\ IF configured /\ ping_ok
             THEN cache_enabled = TRUE /\ redis_client = <<"client">>
             ELSE cache_enabled = FALSE /\ redis_client = None
    /\ last = NoCall
    /\ deleted = {}
    /\ running = <<>>

\* deleted after the call recorded as l returned
Deleted(del, l) ==
    IF l.op = "delete" /\ l.ret = Bool(TRUE) THEN del \cup {l.arg}
    ELSE IF l.op = "save" /\ l.ret = Bool(TRUE) THEN del \ {UuidOf(l)}
    ELSE del

\* the call op(arg) ends as r says
Finish(op, arg, r) ==
    /\ db' = r.db
    /\ cache' = r.cache
    /\ last' = Call(op, arg, r)
    /\ deleted' = Deleted(deleted, Call(op, arg, r))
    /\ UNCHANGED <<cache_enabled, redis_client, startup, running>>

\* the store behaviours that make a difference to a save of vcon
SaveFaults(vcon) ==
    IF Truthy(DictGet(vcon, "uuid"))
    THEN -1..Len(SaveCalls(0, vcon, Ts(1)))
    ELSE {0}

GetFaults == 0..Len(GetTags)

\* save(vcon) for a document of V
SaveIn(V) ==
    \E vcon \in V, now \in Times, cf \in {{}, {"setex"}} :
        \E sf \in SaveFaults(vcon) :
            Finish("save", Dict(vcon),
                   save(db, cache, cache_enabled, redis_client, vcon, Ts(now),
                        sf, cf))

\* get(uuid) for an identifier of U
GetIn(U) ==
    \E uuid \in U, sf \in GetFaults, cf \in SUBSET {"get", "setex"} :
        Finish("get", uuid,
               get(db, cache, cache_enabled, redis_client, uuid, sf, cf))

\* delete(uuid) for an identifier of U
DeleteIn(U) ==
    \E uuid \in U, sf \in 0..1, cf \in {{}, {"delete"}} :
        Finish("delete", uuid,
               delete(db, cache, cache_enabled, redis_client, uuid, sf, cf))

\* the fault patterns of a search over at most n rows: the query faults, or
\* the k-th get meets a store fault, or a cache method faults throughout
SearchFaults(n) ==
    {<<1, <<0, 0>>, {}>>}
    \cup {<<0, <<k, 1>>, cf>> : k \in 0..n, cf \in {{}, {"get"}, {"setex"}}}

\* search(query) for a query of Q, the store holding at most n documents
SearchIn(Q, n) ==
    \E query \in Q, f \in SearchFaults(n),
       rev \in (IF n > 1 THEN BOOLEAN ELSE {FALSE}) :
        Finish("search", Dict(query),
               search(db, cache, cache_enabled, redis_client, query, f[1],
                      f[2], f[3], rev))

\* a cache entry reaches its time to live and the cache drops it
Expire ==
    \E key \in DOMAIN cache :
        /\ cache' = [k \in DOMAIN cache \ {key} |-> cache[k]]
        /\ last' = [NoCall EXCEPT !.op = "expire",
                                  !.arg = Str(SubSeq(key, 6, Len(key)))]
        /\ UNCHANGED <<db, cache_enabled, redis_client, startup, deleted,
                       running>>

Save == SaveIn(Vcons)
Get == GetIn(Uuids)
Delete == DeleteIn(Uuids)
Search == SearchIn(Queries, Cardinality(Uuids))

Next == Save \/ Get \/ Delete \/ Search \/ Expire

Spec == Init /\ [][Next]_vars

-----------------------------------------------------------------------------
(* Several documents: two identifiers with small documents, so that a      *)
(* search has more than one row to resolve.                                 *)

DocLite(u, subject, t) ==
    [uuid |-> u, subject |-> Str(subject), created_at |-> Ts(t),
     updated_at |-> Ts(t)]

\* queries whose subject holds no pattern character of ILIKE
QueriesMulti == {q \in Queries :
                    "subject" \in DOMAIN q =>
                        \A i \in DOMAIN q.subject[2] :
                            q.subject[2][i] \notin {"%", "_"}}

VconsMulti ==
    {DocLite(U1, <<"c">>, 1), DocLite(U1, <<"A", "b">>, 2),
     DocLite(U2, <<"c">>, 1)}

SaveMulti == SaveIn(VconsMulti)
GetMulti == GetIn({U1, U2})
DeleteMulti == DeleteIn({U1, U2})
SearchMulti == SearchIn(QueriesMulti, 2)

NextMulti == SaveMulti \/ GetMulti \/ DeleteMulti \/ SearchMulti \/ Expire

SpecMulti == Init /\ [][NextMulti]_vars

-----------------------------------------------------------------------------
(* The row codec: documents whose sub-collections vary, one kind at a time, *)
(* saved under an identifier the store does not hold, with no fault.        *)

PartyPool ==
    <<[name |-> Str(<<"a">>)],
      [name |-> Str(<<"b">>), mailto |-> Str(<<"b", "@">>)],
      [tel |-> Str(<<"+", "1">>)],
      [name |-> Str(<<>>), tel |-> Str(<<"+", "1">>)]>>

DialogPool ==
    <<[type |-> Str(<<"t">>), duration |-> Num(0)],
      [type |-> Str(<<"t">>), start |-> Ts(1), parties |-> List(<<Num(0)>>),
       originator |-> Num(0)],
      [type |-> Str(<<"v">>), body |-> Str(<<"x">>)],
      [type |-> Str(<<"t">>), body |-> Str(<<>>)]>>

AnalysisPool ==
    <<[type |-> Str(<<"s">>), vendor |-> Str(<<"v">>), dialog |-> Num(0)],
      [type |-> Str(<<"s">>), vendor |-> Str(<<"v">>),
       dialog |-> List(<<Num(0), Num(1)>>)],
      [type |-> Str(<<"s">>), vendor |-> Str(<<"w">>),
       body |-> Str(<<"x">>)],
      [type |-> Str(<<"s">>), dialog |-> List(<<Num(0)>>)],
      [type |-> Str(<<"s">>), vendor |-> Str(<<"v">>),
       dialog |-> List(<<>>)]>>

AttachmentPool ==
    <<[type |-> Str(<<"f">>), party |-> Num(0)],
      [type |-> Str(<<"f">>), mediatype |-> Str(<<"m">>),
       dialog |-> Num(0)],
      [type |-> Str(<<"g">>), body |-> Str(<<"x">>)],
      [party |-> Num(0), filename |-> Str(<<>>)]>>

\* the lists of at most MaxLen different entries of a pool, in every order
ListsOf(pool) ==
    {[i \in DOMAIN f |-> pool[f[i]]] :
        f \in {g \in UNION {[1..n -> DOMAIN pool] : n \in 0..MaxLen} :
                  \A i, j \in DOMAIN g : g[i] = g[j] => i = j}}

\* DocFull with its four sub-lists empty
DocBase(u) ==
    [DocFull(u) EXCEPT !.parties = <<>>, !.dialog = <<>>]

CodecDocs ==
    {[DocBase(U1) EXCEPT !.parties = l] : l \in ListsOf(PartyPool)}
    \cup {[DocBase(U1) EXCEPT !.dialog = l] : l \in ListsOf(DialogPool)}
    \cup {[DocBase(U1) EXCEPT !.analysis = l] : l \in ListsOf(AnalysisPool)}
    \cup {[DocBase(U1) EXCEPT !.attachments = l] :
              l \in ListsOf(AttachmentPool)}
    \cup {DocFull(U1), DocMin(U1)}

\* save(vcon) of a document the store does not hold, nothing faulting
SaveCodec ==
    \E vcon \in CodecDocs, now \in Times :
        /\ HeaderRows(db, vcon.uuid) = {}
        /\ Finish("save", Dict(vcon),
                  save(db, cache, cache_enabled, redis_client, vcon, Ts(now),
                       0, {}))

GetCodec ==
    Finish("get", U1, get(db, cache, cache_enabled, redis_client, U1, 0, {}))

DeleteCodec ==
    Finish("delete", U1,
           delete(db, cache, cache_enabled, redis_client, U1, 0, {}))

NextCodec == SaveCodec \/ GetCodec \/ DeleteCodec \/ Expire

SpecCodec == Init /\ [][NextCodec]_vars

-----------------------------------------------------------------------------
(* Saving again: documents of different lengths saved one after another     *)
(* under one identifier, with no fault.                                     *)

ResaveDocs ==
    {DocFull(U1), DocBase(U1), DocMin(U1),
     [DocBase(U1) EXCEPT !.parties = <<PartyPool[1]>>],
     [DocBase(U1) EXCEPT !.parties = <<PartyPool[3], PartyPool[1]>>,
                         !.analysis = <<AnalysisPool[1], AnalysisPool[2]>>],
     [DocBase(U1) EXCEPT !.analysis = <<AnalysisPool[3]>>,
                         !.attachments = <<AttachmentPool[1]>>]}

\* save(vcon), whether or not the store holds the identifier, nothing
\* faulting
SaveResave ==
    \E vcon \in ResaveDocs, now \in Times :
        Finish("save", Dict(vcon),
               save(db, cache, cache_enabled, redis_client, vcon, Ts(now),
                    0, {}))

NextResave == SaveResave \/ GetCodec \/ DeleteCodec \/ Expire

SpecResave == Init /\ [][NextResave]_vars

-----------------------------------------------------------------------------
(* Cache faults only: the store answers every call, and the cache methods   *)
(* may raise.                                                               *)

SaveCacheFaults ==
    \E vcon \in Vcons, now \in Times, cf \in {{}, {"setex"}} :
        Finish("save", Dict(vcon),
               save(db, cache, cache_enabled, redis_client, vcon, Ts(now),
                    0, cf))

GetCacheFaults ==
    \E uuid \in Uuids, cf \in SUBSET {"get", "setex"} :
        Finish("get", uuid,
               get(db, cache, cache_enabled, redis_client, uuid, 0, cf))

DeleteCacheFaults ==
    \E uuid \in Uuids, cf \in {{}, {"delete"}} :
        Finish("delete", uuid,
               delete(db, cache, cache_enabled, redis_client, uuid, 0, cf))

NextCacheFaults ==
    SaveCacheFaults \/ GetCacheFaults \/ DeleteCacheFaults \/ Expire

SpecCacheFaults == Init /\ [][NextCacheFaults]_vars

-----------------------------------------------------------------------------
(* Concurrent callers.  No lock, transaction or version check surrounds the *)
(* store and cache calls of save, get and delete, so calls of several       *)
(* callers interleave at each such call.  running maps a caller to the call *)
(* it is in:                                                                *)
(*   [op, arg, pc, vcon_id, snap, log]                                      *)
(* pc is the position of the next store or cache call of the operation,     *)
(* vcon_id the local of that name once the header call has answered, snap   *)
(* what the selects of a get have answered so far.  No call raises on its   *)
(* own; a sub-table upsert whose header row a concurrent delete removed     *)
(* violates the foreign key, and that save ends in its except clause, which *)
(* pc = 0 records.                                                          *)

MaxRunning == 2

Callers == 1..MaxRunning

\* two documents of one identifier that a save and a get carry unchanged
ConcDocs ==
    {[DocBase(U1) EXCEPT !.parties = <<PartyPool[1]>>],
     [DocBase(U1) EXCEPT !.subject = Str(<<"c">>),
                         !.parties = <<PartyPool[3]>>]}

\* the header ids the running calls hold in vcon_id
HeldIds == {running[i].vcon_id : i \in DOMAIN running} \ {0}

\* the id the store generates while calls run: the store never hands out an
\* id again that a caller still holds
FreshIdConc(d, held) ==
    CHOOSE n \in 1..(Cardinality(d.vcons) + Cardinality(held) + 1) :
        n \notin {r.id : r \in d.vcons} \cup held

\* table('vcons').upsert(vcon_data).execute() among running calls
UpsertHeader(d, row, held) ==
    IF HeaderRows(d, row.uuid) # {} THEN Upsert(d, "vcons", row)
    ELSE [d EXCEPT !.vcons =
            @ \cup {[c \in DOMAIN row \cup {"id"} |->
                       IF c = "id" THEN FreshIdConc(d, held) ELSE row[c]]}]

\* the foreign key of the sub-tables: the header row of vcon_id is there
ParentExists(d, vcon_id) == \E r \in d.vcons : r.id = vcon_id

Begin(op, arg) ==
    [op |-> op, arg |-> arg, pc |-> 1, vcon_id |-> 0, snap |-> EmptyDb,
     log |-> <<>>]

\* a caller enters save, get or delete
Start ==
    \E i \in Callers \ DOMAIN running :
        /\ \A j \in Callers \ DOMAIN running : i <= j
        /\ \E call \in {Begin("save", Dict(vcon)) : vcon \in ConcDocs}
                       \cup {Begin("get", U1), Begin("delete", U1)} :
              running' = [j \in DOMAIN running \cup {i} |->
                            IF j = i THEN call ELSE running[j]]
        /\ UNCHANGED <<db, cache, cache_enabled, redis_client, startup,
                       last, deleted>>

\* caller i goes on to its next call
Goto(i, vcon_id, snap, tags) ==
    running' = [running EXCEPT ![i].pc = @ + 1, ![i].vcon_id = vcon_id,
                               ![i].snap = snap, ![i].log = @ \o tags]

\* the call of caller i returns ret
Return(i, ret, tags) ==
    LET r == [ret |-> ret, log |-> running[i].log \o tags, exc |-> "none"]
    IN  /\ running' = [j \in DOMAIN running \ {i} |-> running[j]]
        /\ last' = Call(running[i].op, running[i].arg, r)
        /\ deleted' = Deleted(deleted,
                              Call(running[i].op, running[i].arg, r))

\* one call of a running save: the header upsert, a sub-table upsert, or
\* the cache write and return True
SaveStep(i) ==
    LET c == running[i]
        vcon == c.arg[2]
        calls == SaveCalls(c.vcon_id, vcon, Ts(MaxTime))
    IN  /\ c.op = "save" /\ c.pc >= 1
        /\ IF c.pc = 1
           THEN /\ db' = UpsertHeader(db, calls[1].row, HeldIds)
                /\ Goto(i, HeaderId(db', vcon.uuid), c.snap,
                        <<"vcons.upsert">>)
                /\ UNCHANGED <<cache, last, deleted>>
           ELSE IF c.pc <= Len(calls)
           THEN IF ParentExists(db, c.vcon_id)
                THEN /\ db' = Upsert(db, calls[c.pc].table, calls[c.pc].row)
                     /\ Goto(i, c.vcon_id, c.snap,
                             <<calls[c.pc].table \o ".upsert">>)
                     /\ UNCHANGED <<cache, last, deleted>>
                ELSE /\ running' =
                            [running EXCEPT
                                ![i].pc = 0,
                                ![i].log =
                                    @ \o <<calls[c.pc].table \o ".upsert!">>]
                     /\ UNCHANGED <<db, cache, last, deleted>>
           ELSE /\ cache' = CacheSetex(cache, cache_enabled, redis_client,
                                       vcon.uuid, vcon, {}).cache
                /\ Return(i, Bool(TRUE),
                          CacheSetex(cache, cache_enabled, redis_client,
                                     vcon.uuid, vcon, {}).log)
                /\ UNCHANGED db
        /\ UNCHANGED <<cache_enabled, redis_client, startup>>

\* the vcon dict a get builds from its header row and the answers of its
\* four sub-table selects
Assembled(snap) == Reconstruct(snap, CHOOSE r \in snap.vcons : TRUE)

\* one call of a running get: the cache lookup, the header select, one of
\* the four sub-table selects, or the cache write and return
GetStep(i) ==
    LET c == running[i]
        hit == CacheLookup(cache, cache_enabled, redis_client, c.arg, {})
    IN  /\ c.op = "get"
        /\ CASE c.pc = 1 ->
                  IF hit.hit
                  THEN /\ Return(i, Dict(JsonLoads(hit.value)), hit.log)
                       /\ UNCHANGED <<db, cache>>
                  ELSE /\ Goto(i, c.vcon_id, c.snap, hit.log)
                       /\ UNCHANGED <<db, cache, last, deleted>>
             [] c.pc = 2 ->
                  IF HeaderRows(db, c.arg) = {}
                  THEN /\ Return(i, None, <<"vcons.select">>)
                       /\ UNCHANGED <<db, cache>>
                  ELSE /\ Goto(i, HeaderId(db, c.arg),
                               [c.snap EXCEPT !.vcons = HeaderRows(db, c.arg)],
                               <<"vcons.select">>)
                       /\ UNCHANGED <<db, cache, last, deleted>>
             [] c.pc \in 3..6 ->
                  /\ Goto(i, c.vcon_id,
                          [c.snap EXCEPT ![SubTables[c.pc - 2]] =
                              {r \in db[SubTables[c.pc - 2]] :
                                  r.vcon_id = c.vcon_id}],
                          <<SubTables[c.pc - 2] \o ".select">>)
                  /\ UNCHANGED <<db, cache, last, deleted>>
             [] c.pc = 7 ->
                  /\ cache' = CacheSetex(cache, cache_enabled, redis_client,
                                         c.arg, Assembled(c.snap),
                                         {}).cache
                  /\ Return(i, Dict(Assembled(c.snap)),
                            CacheSetex(cache, cache_enabled, redis_client,
                                       c.arg, Assembled(c.snap),
                                       {}).log)
                  /\ UNCHANGED db
        /\ UNCHANGED <<cache_enabled, redis_client, startup>>

\* one call of a running delete: the store delete, or the cache delete and
\* return True
DeleteStep(i) ==
    LET c == running[i]
    IN  /\ c.op = "delete"
        /\ IF c.pc = 1
           THEN /\ db' = DeleteHeader(db, c.arg)
                /\ Goto(i, c.vcon_id, c.snap, <<"vcons.delete">>)
                /\ UNCHANGED <<cache, last, deleted>>
           ELSE /\ cache' = CacheDelete(cache, cache_enabled, redis_client,
                                        c.arg, {}).cache
                /\ Return(i, Bool(TRUE),
                          CacheDelete(cache, cache_enabled, redis_client,
                                      c.arg, {}).log)
                /\ UNCHANGED db
        /\ UNCHANGED <<cache_enabled, redis_client, startup>>

SaveSteps == \E i \in DOMAIN running : SaveStep(i)

GetSteps == \E i \in DOMAIN running : GetStep(i)

DeleteSteps == \E i \in DOMAIN running : DeleteStep(i)

NextConc == Start \/ SaveSteps \/ GetSteps \/ DeleteSteps \/ Expire

SpecConc == Init /\ [][NextConc]_vars

-----------------------------------------------------------------------------
(* Properties *)

Has(log, tag) == \E i \in DOMAIN log : log[i] = tag

Count(log, tag) == Cardinality({i \in DOMAIN log : log[i] = tag})

CacheWrites == {"redis.setex", "redis.setex!"}

StoreCalls ==
    {"vcons.upsert", "parties.upsert", "dialog.upsert", "analysis.upsert",
     "attachments.upsert", "vcons.select", "parties.select", "dialog.select",
     "analysis.select", "attachments.select", "vcons.delete", "vcons.search"}

\* the marks a store call leaves in the log when it fails
StoreFaultTags == {t \o "!" : t \in StoreCalls} \cup {"vcons.upsert0"}

StoreFaulted(log) == \E i \in DOMAIN log : log[i] \in StoreFaultTags

\* what the store alone holds under uuid: the rebuilt document, or None
StoreDocument(d, uuid) ==
    IF HeaderRows(d, uuid) = {} THEN None
    ELSE Dict(Reconstruct(d, CHOOSE r \in HeaderRows(d, uuid) : TRUE))

\* the latest call was a save that returned True and wrote the cache
SavedAndCached ==
    /\ last.op = "save"
    /\ last.ret = Bool(TRUE)
    /\ Has(last.log, "redis.setex")

\* the get that would follow the latest call at once
NextGet(uuid, sf, cf) ==
    get(db, cache, cache_enabled, redis_client, uuid, sf, cf)

\* C1: after a save that returned True and wrote the cache, the get of the
\* same identifier that follows at once, its cache read not faulting,
\* returns the saved document from the cache and issues no store call,
\* whatever the store would have answered (sf ranges over every store fault)
C1_CachePrecedence ==
    SavedAndCached =>
        \A sf \in GetFaults, cf \in SUBSET {"setex"} :
            /\ NextGet(UuidOf(last), sf, cf).ret = last.arg
            /\ NextGet(UuidOf(last), sf, cf).log = <<"redis.get">>
            /\ NextGet(UuidOf(last), sf, cf).exc = "none"

\* a cached save after which the store alone would rebuild another document
\* than the one saved, and the get returns the saved one though the header
\* select would raise
C1_Witness ==
    /\ SavedAndCached
    /\ StoreDocument(db, UuidOf(last)) # last.arg
    /\ NextGet(UuidOf(last), 1, {}).ret = last.arg

\* the same call made with caching disabled
GetUncached(uuid, sf) ==
    get(db, <<>>, FALSE, None, uuid, sf, {})

SaveUncached(vcon, now, sf) ==
    save(db, <<>>, FALSE, None, vcon, now, sf, {})

DeleteUncached(uuid, sf) ==
    delete(db, <<>>, FALSE, None, uuid, sf, {})

\* C2: in every state the calls reach, and under every cache fault, a get
\* the store answers returns the document, or None, that the same get
\* returns with caching disabled, and save and delete return the boolean
\* they return with caching disabled.  (The store is the same in both runs:
\* save and delete write it without regard to the cache, and get does not
\* write it.)
C2_CacheIsAccelerator ==
    /\ \A uuid \in Uuids, cf \in SUBSET {"get", "setex"} :
          NextGet(uuid, 0, cf).ret = GetUncached(uuid, 0).ret
    /\ \A vcon \in Vcons, cf \in {{}, {"setex"}} :
          \A sf \in SaveFaults(vcon) :
              save(db, cache, cache_enabled, redis_client, vcon, Ts(1), sf,
                   cf).ret = SaveUncached(vcon, Ts(1), sf).ret
    /\ \A uuid \in Uuids, sf \in 0..1, cf \in {{}, {"delete"}} :
          delete(db, cache, cache_enabled, redis_client, uuid, sf, cf).ret
              = DeleteUncached(uuid, sf).ret

\* C3: a call during which a cache method raised still returned, and
\* returned what the store decided: save and delete True (the cache is
\* called only after the store calls succeeded), get the document rebuilt
\* from the store, or None when the store holds none or faulted
C3_CacheFaultIsolation ==
    /\ (last.op = "save" /\ Has(last.log, "redis.setex!")) =>
          last.exc = "none" /\ last.ret = Bool(TRUE)
    /\ (last.op = "delete" /\ Has(last.log, "redis.delete!")) =>
          last.exc = "none" /\ last.ret = Bool(TRUE)
    /\ (last.op = "get"
        /\ (Has(last.log, "redis.get!") \/ Has(last.log, "redis.setex!"))) =>
          /\ last.exc = "none"
          /\ last.ret = IF StoreFaulted(last.log) THEN None
                        ELSE StoreDocument(db, last.arg)

\* a save whose cache write raised and which returned True
C3_Witness ==
    /\ last.op = "save"
    /\ Has(last.log, "redis.setex!")
    /\ last.ret = Bool(TRUE)
    /\ Len(last.log) > 2

\* C4: in a save the cache write is the last call, made after the header
\* upsert and every upsert of the four passes were issued and none raised,
\* and the rows are in the store by then; a save that returned False made
\* no cache write
C4_WriteThroughOrdering ==
    last.op = "save" =>
        /\ \A i \in DOMAIN last.log :
              last.log[i] \in CacheWrites =>
                  /\ i = Len(last.log)
                  /\ SubSeq(last.log, 1, i - 1)
                        = UpsertTags(SaveCalls(0, last.arg[2], Ts(1)))
                  /\ last.ret = Bool(TRUE)
                  /\ HeaderRows(db, UuidOf(last)) # {}
                  /\ \A k \in 2..(i - 1) :
                        SaveCalls(HeaderId(db, UuidOf(last)), last.arg[2],
                                  Ts(1))[k].row
                            \in db[SaveCalls(0, last.arg[2], Ts(1))[k].table]
        /\ last.ret = Bool(FALSE) =>
              \A i \in DOMAIN last.log : last.log[i] \notin CacheWrites

\* a save with sub-collections that wrote the cache after its four upserts
C4_Witness ==
    /\ last.op = "save"
    /\ last.log = <<"vcons.upsert", "parties.upsert", "parties.upsert",
                    "dialog.upsert", "redis.setex">>

\* C6 as amended: a save of a document whose uuid is missing or empty
\* returns False without raising (the ValueError is caught by save's own
\* except clause), and issues no store or cache call
C6_MalformedInputReturnsFalse ==
    (last.op = "save" /\ ~Truthy(DictGet(last.arg[2], "uuid"))) =>
        /\ last.ret = Bool(FALSE)
        /\ last.exc = "none"
        /\ last.log = <<>>

\* a save of a document without the uuid key was made
C6_Witness ==
    /\ last.op = "save"
    /\ "uuid" \notin DOMAIN last.arg[2]
    /\ last.ret = Bool(FALSE)
    /\ db # EmptyDb

\* C6 as claimed: a save of a document whose uuid is missing or empty raises
\* to the caller, and issues no store or cache call
C6_MalformedInputRaises ==
    (last.op = "save" /\ ~Truthy(DictGet(last.arg[2], "uuid"))) =>
        /\ last.exc # "none"
        /\ last.log = <<>>

\* the second of two deletes leaves what the first left
SameAfter(r1, r2) ==
    /\ r2.ret = Bool(TRUE)
    /\ r2.exc = "none"
    /\ r2.db = r1.db
    /\ r2.cache = r1.cache

DeleteAgain(r1, uuid, cf) ==
    /\ r1.ret = Bool(TRUE)
    /\ r1.exc = "none"
    /\ SameAfter(r1, delete(r1.db, r1.cache, cache_enabled, redis_client,
                            uuid, 0, cf))

\* C7: in every state, with no store fault, delete returns True whether or
\* not the store holds the identifier, and a second delete (the cache
\* behaving as in the first) returns True again and leaves the store and
\* the cache as the first left them
C7_IdempotentDelete ==
    \A uuid \in Uuids, cf \in {{}, {"delete"}} :
        DeleteAgain(delete(db, cache, cache_enabled, redis_client, uuid, 0,
                           cf), uuid, cf)

\* a delete returned True, the store holds nothing under the identifier any
\* more, and deleting again returns True
C7_Witness ==
    /\ last.op = "delete"
    /\ last.ret = Bool(TRUE)
    /\ Has(last.log, "redis.delete")
    /\ HeaderRows(db, last.arg) = {}
    /\ delete(db, cache, cache_enabled, redis_client, last.arg, 0,
              {}).ret = Bool(TRUE)

\* the documents a search returned are the rows its query matched, less
\* one for every get whose header select raised
SearchLeavesOut ==
    Len(last.ret[2]) = Cardinality(Filtered(db, last.arg[2]))
                          - Count(last.log, "vcons.select!")

\* C5 as amended: no call raises to its caller; a store fault in save
\* gives False, in get None, in delete False, and in the query of search
\* the empty list; a store fault while search resolves one identifier
\* leaves that document out of the list and the others in it
C5_TotalContract ==
    /\ last.exc = "none"
    /\ (last.op = "save" /\ StoreFaulted(last.log)) => last.ret = Bool(FALSE)
    /\ (last.op = "get" /\ StoreFaulted(last.log)) => last.ret = None
    /\ (last.op = "delete" /\ StoreFaulted(last.log)) =>
          last.ret = Bool(FALSE)
    /\ (last.op = "search" /\ Has(last.log, "vcons.search!")) =>
          last.ret = List(<<>>)
    /\ (last.op = "search" /\ ~Has(last.log, "vcons.search!")) =>
          SearchLeavesOut

\* a search over two stored documents in which the store raised for one
\* identifier, and which returned the other document
C5_Witness ==
    /\ last.op = "search"
    /\ Has(last.log, "vcons.select!")
    /\ Cardinality(Filtered(db, last.arg[2])) = 2
    /\ Len(last.ret[2]) = 1

\* C5 as claimed: no call raises to its caller; a store fault at any step
\* of save gives False, of get None, of delete False, and of search the
\* empty list
C5_StoreFaultGivesEmpty ==
    /\ last.exc = "none"
    /\ (last.op = "save" /\ StoreFaulted(last.log)) => last.ret = Bool(FALSE)
    /\ (last.op = "get" /\ StoreFaulted(last.log)) => last.ret = None
    /\ (last.op = "delete" /\ StoreFaulted(last.log)) =>
          last.ret = Bool(FALSE)
    /\ (last.op = "search" /\ StoreFaulted(last.log)) =>
          last.ret = List(<<>>)

\* an analysis entry with its dialog reference a scalar when it is a list
\* of one element
ScalarIfSingleton(analysis) ==
    IF "dialog" \in DOMAIN analysis
       /\ analysis.dialog[1] = "list"
       /\ Len(analysis.dialog[2]) = 1
    THEN [analysis EXCEPT !.dialog = analysis.dialog[2][1]]
    ELSE analysis

Normalised(vcon) ==
    IF "analysis" \in DOMAIN vcon
    THEN [vcon EXCEPT !.analysis =
             [i \in DOMAIN vcon.analysis |->
                 ScalarIfSingleton(vcon.analysis[i])]]
    ELSE vcon

\* C8: after a save that returned True, nothing faulting, the get that
\* reads the store returns the saved document, but for the dialog
\* reference of an analysis entry, a scalar when it has one element
C8_RoundTrip ==
    (last.op = "save" /\ last.ret = Bool(TRUE)) =>
        GetUncached(UuidOf(last), 0).ret = Dict(Normalised(last.arg[2]))

\* the rows of a sub-table under the header of the latest call
RowsOf(table) ==
    {r \in db[table] : r.vcon_id = HeaderId(db, UuidOf(last))}

PositionsOf(table) == {r[IndexCol(table)] : r \in RowsOf(table)}

\* what the get that reads the store returns under key k
StoreList(k) == GetUncached(UuidOf(last), 0).ret[2][k]

\* the row an entry of a sub-collection is saved as, and the entry its row
\* is read back as
EntryRow(table, vcon_id, idx, x) ==
    CASE table = "parties"     -> party_data(vcon_id, idx, x)
      [] table = "dialog"      -> dialog_data(vcon_id, idx, x)
      [] table = "analysis"    -> analysis_data(vcon_id, idx, x)
      [] table = "attachments" -> attachment_data(vcon_id, idx, x)

EntryBack(table, row) ==
    CASE table = "parties"     -> _party_from_db(row)
      [] table = "dialog"      -> _dialog_from_db(row)
      [] table = "analysis"    -> _analysis_from_db(row)
      [] table = "attachments" -> _attachment_from_db(row)

\* the sub-collection l of the latest call is in table at the positions
\* 0..n-1, in its order, and is read back in that order
InOrder(table, vcon_id, l) ==
    /\ PositionsOf(table) = 0..(Len(l) - 1)
    /\ \A i \in 1..Len(l) :
          EntryRow(table, vcon_id, i - 1, l[i]) \in RowsOf(table)
    /\ StoreList(table)
          = [i \in 1..Len(l) |->
                EntryBack(table, EntryRow(table, vcon_id, i - 1, l[i]))]

Contains(text, sub) ==
    \E i \in 0..(Len(text) - Len(sub)) :
        \A j \in 1..Len(sub) : Lower(text[i + j]) = Lower(sub[j])

\* the document vcon satisfies every criterion of query
Satisfies(vcon, query) ==
    /\ "subject" \in DOMAIN query =>
          /\ DictGet(vcon, "subject")[1] = "str"
          /\ Contains(vcon.subject[2], query.subject[2])
    /\ "start_date" \in DOMAIN query =>
          /\ DictGet(vcon, "created_at")[1] = "ts"
          /\ vcon.created_at[2] >= query.start_date[2]
    /\ "end_date" \in DOMAIN query =>
          /\ DictGet(vcon, "created_at")[1] = "ts"
          /\ vcon.created_at[2] <= query.end_date[2]

\* C10: the store not faulting, every document a search returned satisfies
\* all the criteria of the query, and a search with no criterion returned
\* one document for every identifier the store holds, whatever cache writes
\* and invalidations faulted before
C10_SearchResultsMatch ==
    (last.op = "search" /\ ~StoreFaulted(last.log)) =>
        /\ \A i \in DOMAIN last.ret[2] :
              Satisfies(last.ret[2][i], last.arg[2])
        /\ last.arg[2] = <<>> =>
              /\ Len(last.ret[2]) = Cardinality(db.vcons)
              /\ {last.ret[2][i].uuid : i \in DOMAIN last.ret[2]}
                    = {r.uuid : r \in db.vcons}

\* the four sub-collections are lists in ret, empty where saved has none
HasLists(ret, saved) ==
    /\ ret # None
    /\ \A k \in DOMAIN SubTables :
          /\ SubTables[k] \in DOMAIN ret[2]
          /\ SubList(saved, SubTables[k]) = <<>> =>
                ret[2][SubTables[k]] = <<>>

\* C11: after a save that returned True, the get that follows, whether the
\* cache or the store serves it, returns a document in which parties,
\* dialog, analysis and attachments are each present as a list, empty when
\* the saved document had no entry of that kind
C11_EmptySubCollections ==
    (last.op = "save" /\ last.ret = Bool(TRUE)) =>
        \A cf \in SUBSET {"get", "setex"} :
            HasLists(NextGet(UuidOf(last), 0, cf).ret, last.arg[2])

\* a get that found nothing: None, nothing raised, only the cache read and
\* the header select issued, the cache and the store as they were
NotFound(r) ==
    /\ r.ret = None
    /\ r.exc = "none"
    /\ Has(r.log, "vcons.select")
    /\ \A i \in DOMAIN r.log :
          r.log[i] \in {"redis.get", "redis.get!", "vcons.select"}
    /\ r.cache = cache
    /\ r.db = db

\* C12: in every state in which the store holds no header row and the
\* cache no entry for an identifier, get of it returns None without
\* raising, issues no sub-collection select and no cache write
C12_NotFound ==
    \A uuid \in Uuids, cf \in SUBSET {"get", "setex"} :
        (HeaderRows(db, uuid) = {} /\ CacheKey(uuid) \notin DOMAIN cache) =>
            NotFound(NextGet(uuid, 0, cf))

\* a get with the cache on that missed the cache, found no header row and
\* returned None
C12_Witness ==
    /\ last.op = "get"
    /\ last.ret = None
    /\ last.log = <<"redis.get", "vcons.select">>
    /\ HeaderRows(db, last.arg) = {}
    /\ cache = <<>>

\* a save that stopped at the header upsert: False, nothing raised, one
\* call issued, the sub-tables and the cache as they were
HeaderFailed(r) ==
    /\ r.ret = Bool(FALSE)
    /\ r.exc = "none"
    /\ r.log \in {<<"vcons.upsert!">>, <<"vcons.upsert0">>}
    /\ r.cache = cache
    /\ \A k \in DOMAIN SubTables : r.db[SubTables[k]] = db[SubTables[k]]

\* C13: in every state, a save whose header upsert raises (sf = 1) or
\* returns no row (sf = -1) returns False, upserts no sub-collection row
\* and makes no cache write
C13_HeaderFailure ==
    \A vcon \in {v \in Vcons : Truthy(DictGet(v, "uuid"))},
       sf \in {1, -1}, cf \in {{}, {"setex"}} :
        HeaderFailed(save(db, cache, cache_enabled, redis_client, vcon,
                          Ts(1), sf, cf))

\* a save of a document with parties whose header upsert returned no row:
\* it returned False and the parties table is empty
C13_Witness ==
    /\ last.op = "save"
    /\ last.log = <<"vcons.upsert0">>
    /\ last.ret = Bool(FALSE)
    /\ Len(SubList(last.arg[2], "parties")) > 0
    /\ db.parties = {}

\* a delete whose store delete raised: False, the cache and the store as
\* they were, no cache call
DeleteFaulted(r) ==
    /\ r.ret = Bool(FALSE)
    /\ r.exc = "none"
    /\ r.log = <<"vcons.delete!">>
    /\ r.cache = cache
    /\ r.db = db

\* a delete whose store delete went through: the header row is gone and
\* the cache invalidation, if any, is the second call
DeleteOrdered(r, uuid) ==
    /\ r.log[1] = "vcons.delete"
    /\ HeaderRows(r.db, uuid) = {}
    /\ \A i \in DOMAIN r.log :
          r.log[i] \in {"redis.delete", "redis.delete!"} => i = 2
    /\ CacheOn(cache_enabled, redis_client) => Len(r.log) = 2

\* C14: in every state, a delete whose store delete raises returns False
\* and leaves the cache entry as it is, and a delete whose store delete
\* succeeds issues the cache invalidation after it
C14_InvalidationOrdering ==
    \A uuid \in Uuids, cf \in {{}, {"delete"}} :
        /\ DeleteFaulted(delete(db, cache, cache_enabled, redis_client, uuid,
                                1, cf))
        /\ DeleteOrdered(delete(db, cache, cache_enabled, redis_client, uuid,
                                0, cf), uuid)

\* a delete returned False and the cache still holds the entry
C14_Witness ==
    /\ last.op = "delete"
    /\ last.ret = Bool(FALSE)
    /\ last.log = <<"vcons.delete!">>
    /\ CacheKey(last.arg) \in DOMAIN cache

\* after the get that ended as r, any get of uuid whose cache read does not
\* fault is served from the cache
HitNext(r, uuid) ==
    \A sf \in GetFaults :
        /\ get(r.db, r.cache, cache_enabled, redis_client, uuid, sf, {}).log
              = <<"redis.get">>
        /\ get(r.db, r.cache, cache_enabled, redis_client, uuid, sf, {}).ret
              = r.ret

\* the get that ended as r returned the document rebuilt from the store and
\* left it in the cache with the configured time to live
Populated(r, uuid) ==
    /\ r.ret = StoreDocument(db, uuid)
    /\ r.log[Len(r.log)] = "redis.setex"
    /\ CacheKey(uuid) \in DOMAIN r.cache
    /\ r.cache[CacheKey(uuid)]
          = [ttl |-> cache_ttl, value |-> JsonDumps(r.ret[2])]
    /\ HitNext(r, uuid)

\* C15: the cache on and its write not faulting, a get that misses the
\* cache, or whose cache read raises, while the store holds the record,
\* writes the rebuilt document to the cache under the identifier with
\* cache_ttl, and the next get of the identifier returns it from the cache
\* without a store call
C15_ReadThroughPopulation ==
    \A uuid \in Uuids, cf \in {{}, {"get"}} :
        (/\ CacheOn(cache_enabled, redis_client)
         /\ HeaderRows(db, uuid) # {}
         /\ (cf = {"get"} \/ CacheKey(uuid) \notin DOMAIN cache)) =>
            Populated(get(db, cache, cache_enabled, redis_client, uuid, 0,
                          cf), uuid)

\* a get whose cache read raised, which read the store and wrote the cache,
\* after which a get is served from the cache though the store would raise
C15_Witness ==
    /\ last.op = "get"
    /\ last.log = <<"redis.get!">> \o GetTags \o <<"redis.setex">>
    /\ cache[CacheKey(last.arg)].value = JsonDumps(last.ret[2])
    /\ NextGet(last.arg, 1, {}).ret = last.ret

\* the row of table at position i - 1 under the header of the latest call,
\* and the entry it decodes to
StoredRow(table, i) ==
    CHOOSE r \in RowsOf(table) : r[IndexCol(table)] = i - 1

Decoded(table, i) == EntryBack(table, StoredRow(table, i))

\* the fields of an entry that need not be there: all but the type of a
\* dialog and the type and vendor of an analysis
OptionalFields(table) ==
    CASE table = "parties"     -> PartyFields
      [] table = "dialog"      -> {r[1] : r \in DialogRules} \ {"type"}
      [] table = "analysis"    ->
            ({r[1] : r \in AnalysisRules} \cup {"dialog"})
                \ {"type", "vendor"}
      [] table = "attachments" -> {r[1] : r \in AttachmentRules}

\* C16: after a save that returned True, for each kind, each saved entry
\* and each optional field the entry does not have, the entry decoded from
\* its stored row does not have the field either
C16_PresencePreservation ==
    (last.op = "save" /\ last.ret = Bool(TRUE)) =>
        \A k \in DOMAIN SubTables :
            \A i \in DOMAIN SubList(last.arg[2], SubTables[k]) :
                \A f \in OptionalFields(SubTables[k]) :
                    f \notin DOMAIN last.arg[2][SubTables[k]][i] =>
                        f \notin DOMAIN Decoded(SubTables[k], i)

\* a saved party with a telephone number only, decoded with that field
\* only, and a saved attachment without type, decoded without type
C16_Witness ==
    /\ last.op = "save"
    /\ last.ret = Bool(TRUE)
    /\ \/ /\ Len(SubList(last.arg[2], "parties")) = 2
          /\ DOMAIN last.arg[2].parties[1] = {"tel"}
          /\ DOMAIN Decoded("parties", 1) = {"tel"}
          /\ DOMAIN Decoded("parties", 2) = {"name"}
       \/ /\ Len(SubList(last.arg[2], "attachments")) = 1
          /\ "type" \notin DOMAIN last.arg[2].attachments[1]
          /\ DOMAIN Decoded("attachments", 1) = {"party"}

\* C17: after a save that returned True, a dialog entry saved with
\* duration 0 is decoded from its row with duration 0, and a dialog entry
\* saved without duration is decoded without it
C17_ZeroValuePreservation ==
    (last.op = "save" /\ last.ret = Bool(TRUE)) =>
        \A i \in DOMAIN SubList(last.arg[2], "dialog") :
            /\ DictGet(last.arg[2].dialog[i], "duration") = Num(0) =>
                  /\ "duration" \in DOMAIN Decoded("dialog", i)
                  /\ Decoded("dialog", i).duration = Num(0)
            /\ "duration" \notin DOMAIN last.arg[2].dialog[i] =>
                  "duration" \notin DOMAIN Decoded("dialog", i)

\* two dialog entries saved, the first with duration 0 and decoded with it,
\* the second without duration and decoded without it
C17_Witness ==
    /\ last.op = "save"
    /\ last.ret = Bool(TRUE)
    /\ Len(SubList(last.arg[2], "dialog")) = 2
    /\ DictGet(last.arg[2].dialog[1], "duration") = Num(0)
    /\ DictGet(Decoded("dialog", 1), "duration") = Num(0)
    /\ "duration" \notin DOMAIN last.arg[2].dialog[2]
    /\ "duration" \notin DOMAIN Decoded("dialog", 2)

\* the dialog reference ref of a saved analysis entry as its row holds it: a
\* scalar as a list of one element, a list as it is
RefStored(ref, row) ==
    /\ ref[1] = "int" => row.dialog_indices = List(<<ref>>)
    /\ ref[1] = "list" => row.dialog_indices = ref
    /\ ref = None => row.dialog_indices = None

\* the stored reference list as the decoded entry out shows it
RefDecoded(stored, out) ==
    IF stored = None \/ Len(stored[2]) = 0 THEN "dialog" \notin DOMAIN out
    ELSE /\ "dialog" \in DOMAIN out
         /\ Len(stored[2]) = 1 => out.dialog = stored[2][1]
         /\ Len(stored[2]) >= 2 => out.dialog = stored

\* C18: after a save that returned True, the row of each analysis entry
\* holds a scalar dialog reference as a list of one element and a list as
\* given, and the entry decoded from the row has the bare element for a
\* list of one, the list for a list of two or more, and no dialog field for
\* an empty or null list
C18_AnalysisDialogReference ==
    (last.op = "save" /\ last.ret = Bool(TRUE)) =>
        \A i \in DOMAIN SubList(last.arg[2], "analysis") :
            /\ RefStored(DictGet(last.arg[2].analysis[i], "dialog"),
                         StoredRow("analysis", i))
            /\ RefDecoded(StoredRow("analysis", i).dialog_indices,
                          Decoded("analysis", i))

\* three analysis entries saved with the references [0], [0, 1] and 0,
\* decoded with 0, [0, 1] and 0
C18_Witness ==
    /\ last.op = "save"
    /\ last.ret = Bool(TRUE)
    /\ Len(SubList(last.arg[2], "analysis")) = 3
    /\ DictGet(last.arg[2].analysis[1], "dialog") = List(<<Num(0)>>)
    /\ DictGet(Decoded("analysis", 1), "dialog") = Num(0)
    /\ DictGet(Decoded("analysis", 2), "dialog") = List(<<Num(0), Num(1)>>)
    /\ DictGet(last.arg[2].analysis[3], "dialog") = Num(0)
    /\ StoredRow("analysis", 3).dialog_indices = List(<<Num(0)>>)
    /\ DictGet(Decoded("analysis", 3), "dialog") = Num(0)

CacheCalls ==
    {"redis.get", "redis.get!", "redis.setex", "redis.setex!",
     "redis.delete", "redis.delete!"}

\* C19: when from_url or the ping raised in __init__, the object exists
\* with caching disabled and no client, in every state from then on, and
\* while caching is disabled no save, get, delete or search issues a cache
\* call and the cache holds nothing of this process
C19_StartupLiveness ==
    /\ startup = "failed" => (~cache_enabled /\ redis_client = None)
    /\ ~cache_enabled =>
          /\ \A i \in DOMAIN last.log : last.log[i] \notin CacheCalls
          /\ cache = <<>>

\* the ping failed at construction, and later a search returned a stored
\* document with store calls only
C19_Witness ==
    /\ startup = "failed"
    /\ last.op = "search"
    /\ last.log = <<"vcons.search">> \o GetTags
    /\ Len(last.ret[2]) = 1

\* the rows of table under the header of the latest call are those of the
\* list l and no other, and the store path of get returns as many entries
OnlyRowsOf(table, vcon_id, l) ==
    /\ Len(StoreList(table)) = Len(l)
    /\ \A r \in RowsOf(table) :
          \E i \in 1..Len(l) : r = EntryRow(table, vcon_id, i - 1, l[i])

\* C20: nothing faulting, after a save that returned True, whatever was
\* saved under the identifier before, the store holds under it the rows of
\* the document just saved and no other, and the get that reads the store
\* returns sub-collections of the lengths of that document
C20_ReplaceOnResave ==
    (last.op = "save" /\ last.ret = Bool(TRUE)) =>
        \A k \in DOMAIN SubTables :
            OnlyRowsOf(SubTables[k], HeaderId(db, UuidOf(last)),
                       SubList(last.arg[2], SubTables[k]))

\* C21: a get of an identifier whose delete returned True, with no save of
\* it returning True since, returns None, whatever cache method raised
\* during the delete or later
C21_DeleteIsObserved ==
    (last.op = "get" /\ last.arg \in deleted) => last.ret = None

\* the cache entry of uuid is absent or holds the document in the store
Coherent(d, c, uuid) ==
    CacheKey(uuid) \in DOMAIN c =>
        Dict(JsonLoads(c[CacheKey(uuid)].value)) = StoreDocument(d, uuid)

\* C22: whenever no save, get or delete is running and none of the calls so
\* far ended in a fault, the cache entry of the identifier is absent or holds
\* the document the store holds, however the calls were interleaved
C22_CoherentAfterInterleaving ==
    DOMAIN running = {} => \A uuid \in Uuids : Coherent(db, cache, uuid)

====
